---- MODULE Spec2Model ----
(***************************************************************************)
(* Cortex engine: the memory table, the relation table, the embedding      *)
(* cache, the vector index (vec_memories) and the keyword index            *)
(* (fts_memories), driven by the Engine operations Store, Recall, Delete,  *)
(* Validate and Relate.  Every storage statement and the embedding          *)
(* provider can fail; at most one step fails per call (the fault input).    *)
(***************************************************************************)
EXTENDS Integers, Sequences, FiniteSets, TLC

\* ---------------------------------------------------------------- bounds
MaxCalls == 3        \* calls of the engine in one run
MaxMem == 2          \* memory ids ever issued
MaxTime == 2         \* clock ticks
MaxCallers == 2      \* callers whose stores can overlap
MaxVecLen == 2       \* elements of a vector saved on its own
MaxLines == 3        \* lines the server reads before the end of its input

\* time.Now() is finer than the whole seconds time.RFC3339 writes
TicksPerSecond == 2

\* ------------------------------------------------------- program constants
DefaultLimit == 5
DefaultMinScore == 300       \* 0.3, scores are in thousandths
SemanticWeight == 7          \* 0.7 per hundredth of similarity
KeywordBoost == 150          \* 0.15
TrustProposed == "proposed"
TrustValidated == "validated"
TrustProven == "proven"
TypeGeneral == "general"
\* the declared enums
TrustLevelEnum == {"proposed", "validated", "proven", "disputed", "obsolete"}
MemoryTypeEnum == {"general", "error", "pattern", "decision", "context", "procedure"}
RelationTypeEnum ==
  {"causes", "solves", "replaces", "requires", "related_to", "part_of", "contradicts"}

NoId == 0                                   \* no memory (a nil *Memory)
NoMemory == [id |-> NoId]
NilTags == [isNil |-> TRUE, items |-> <<>>]  \* a nil []string
Tags(items) == [isNil |-> FALSE, items |-> items]

\* a float32 as its 32-bit word, in two 16-bit halves
Word(hi, lo) == [hi |-> hi, lo |-> lo]

\* -------------------------------------------------------------- input sets
Contents == {"fix", "bug"}
Queries == {"fix", "bug", "tk"}
StoreOptionSet ==
  { [topicKey |-> "",   tags |-> NilTags,    type |-> "",        trust |-> "",
     project |-> "", source |-> ""],
    [topicKey |-> "tk", tags |-> NilTags,    type |-> "",        trust |-> "",
     project |-> "", source |-> ""],
    [topicKey |-> "tk", tags |-> Tags(<<"fix">>), type |-> "pattern", trust |-> TrustValidated,
     project |-> "cortex", source |-> ""] }
\* an argument or flag of a call at the boundary: absent, or given with a value
NoArg == [given |-> FALSE, value |-> ""]
Arg(v) == [given |-> TRUE, value |-> v]
\* the arguments of cortex_store, which has no trust argument
ToolStoreArgs ==
  { [type |-> NoArg, topic_key |-> Arg("tk")],
    [type |-> Arg("pattern"), topic_key |-> Arg("tk")] }
\* the flags of the store command
RunStoreFlags ==
  { [type |-> NoArg, key |-> Arg("tk"), trust |-> NoArg],
    [type |-> NoArg, key |-> Arg("tk"), trust |-> Arg(TrustValidated)] }
StoreFaults == {"none", "lookup", "save", "embed", "cache", "vecdel", "vecins"}
RecallOptionSet ==
  { [limit |-> 0,  minScore |-> 0,   trustLevels |-> {},
     types |-> {}, tags |-> <<>>, project |-> "", topicKey |-> ""],
    [limit |-> 1,  minScore |-> 100, trustLevels |-> {TrustProposed},
     types |-> {"decision"}, tags |-> <<"zzz">>, project |-> "other", topicKey |-> "TK"],
    [limit |-> -1, minScore |-> 0,   trustLevels |-> {},
     types |-> {}, tags |-> <<>>, project |-> "", topicKey |-> ""] }
RecallFaults == {"none", "embed", "vec", "fts", "inc"}
NoFilter == [types |-> {}, trustLevels |-> {}, project |-> "", topicKey |-> "", limit |-> 0]
ListOptionSet ==
  { NoFilter,
    [NoFilter EXCEPT !.limit = 1],
    [types |-> {"pattern"}, trustLevels |-> {TrustValidated}, project |-> "cortex",
     topicKey |-> "tk", limit |-> 1],
    [NoFilter EXCEPT !.topicKey = "TK"],
    [NoFilter EXCEPT !.types = {"decision"}] }
ListFaults == {"none", "query"}
StatsFaults == {"none", "memories", "relations", "embeddings"}
Configs ==
  [EmbeddingProvider : {"openai", "", "ollama", "cohere"}, OpenAIKey : {"", "sk-test"}]
NewFaults == {"none", "mkdir", "open", "migrate"}
ValidateTrusts == {TrustValidated, "obsolete", "bogus"}
RelationTypes == {"solves", "bogus"}
Notes == {""}
WriteFaults == {"none", "write"}
RelateFaults == {"none", "read", "write"}

MemIds == 1..MaxMem

\* float32 bit patterns: zero, the sign bit with the lowest bit, 1.0
\* (0x3F800000), and 0x12345678 with four different bytes
CodecWords == {Word(0, 0), Word(32769, 1), Word(16256, 0), Word(4660, 22136)}
CodecVectors == UNION {[1..n -> CodecWords] : n \in 0..MaxVecLen}
SaveEmbeddingFaults == {"none", "cache", "vecdel", "vecins"}
Callers == 1..MaxCallers

VARIABLES
  memories,     \* table memories: id -> row
  relations,    \* table relations: id -> row
  embeddings,   \* table embeddings: memory_id -> [vector, model]
  vec,          \* virtual table vec_memories: memory_id -> vector
  fts,          \* virtual table fts_memories: rowid -> indexed columns
  deleted,      \* memory ids removed by a successful Delete
  now,          \* the clock, in ticks
  calls,        \* calls made so far
  inflight,     \* per caller: the store that has looked its key up and not yet written
  engine,       \* per caller: what its last New or Close left behind
  server,       \* the tool-calling server: its loop, the last line read, the responses
  ret           \* what the last call returned

vars ==
  <<memories, relations, embeddings, vec, fts, deleted, now, calls, inflight, engine,
    server, ret>>

\* no store in progress
Idle == [op |-> "none"]
\* no line read yet
NoLine == [kind |-> "none", id |-> NoId, method |-> "", params |-> ""]
\* a caller that has not constructed an engine
NoEngine == [op |-> "none", engine |-> FALSE, err |-> FALSE, opened |-> FALSE, open |-> FALSE]

\* one more call of the engine, run from its first statement to its return
Called == calls < MaxCalls /\ calls' = calls + 1 /\ UNCHANGED <<inflight, engine, server>>

\* ------------------------------------------------------------------- time
\* time.Time.Format(time.RFC3339): whole seconds only
FormatRFC3339(t) == t \div TicksPerSecond
\* time.Parse(time.RFC3339, s)
ParseRFC3339(s) == s * TicksPerSecond

\* ------------------------------------------------------------- embeddings
\* the provider's vector for a text: one component, a point on a line (hundredths)
Embed(text) == <<Word(0, IF text = "fix" THEN 0 ELSE IF text = "tk" THEN 40 ELSE 240)>>
EmbedModel == "text-embedding-3-small"
\* L2 distance of two vectors, in hundredths
Distance(a, b) == IF a[1].lo >= b[1].lo THEN a[1].lo - b[1].lo ELSE b[1].lo - a[1].lo

\* --------------------------------------------------------------- utilities
Remove(f, k) == [x \in DOMAIN f \ {k} |-> f[x]]
Put(f, k, v) == (k :> v) @@ f
MaxOf(S) == CHOOSE x \in S : \A y \in S : y <= x
SetOfSeq(s) == {s[i] : i \in DOMAIN s}

\* the memory ids stored at some time: only Delete removes a row
Issued == DOMAIN memories \cup deleted
\* generateID: a token no stored memory ever had
generateID == IF Issued = {} THEN 1 ELSE MaxOf(Issued) + 1
\* the same for relations
generateRelID == IF DOMAIN relations = {} THEN 1 ELSE MaxOf(DOMAIN relations) + 1

\* --------------------------------------------------------- memories table
\* rowid of a new row: one more than the largest rowid in the table
NewRowid == IF DOMAIN memories = {} THEN 1
            ELSE MaxOf({memories[i].rowid : i \in DOMAIN memories}) + 1

\* the columns fts_memories indexes for a row
FtsColumns(row) == [content |-> row.content, topicKey |-> row.topicKey, tags |-> row.tags]

\* scanMemory: a row as a Memory struct (times parsed back from their strings)
scanMemory(id, row) ==
  [id |-> id, content |-> row.content, type |-> row.type, topicKey |-> row.topicKey,
   tags |-> row.tags, trust |-> row.trust, project |-> row.project,
   createdAt |-> ParseRFC3339(row.createdAt), updatedAt |-> ParseRFC3339(row.updatedAt),
   accessCnt |-> row.accessCnt]

\* DB.GetMemory: nil when no row has the id
GetMemory(id) == IF id \in DOMAIN memories THEN scanMemory(id, memories[id]) ELSE NoMemory

\* DB.GetMemoryByTopicKey: WHERE topic_key = ? ORDER BY updated_at DESC LIMIT 1;
\* the ids the query can return (more than one only on a tie)
GetMemoryByTopicKey(key) ==
  LET match == {i \in DOMAIN memories : memories[i].topicKey = key}
  IN {i \in match : \A j \in match : memories[j].updatedAt <= memories[i].updatedAt}

\* DB.SaveMemory: INSERT ... ON CONFLICT(id) DO UPDATE (created_at is not in the
\* SET list); the result is the new table
SaveMemory(m) ==
  LET row == [content |-> m.content, type |-> m.type, topicKey |-> m.topicKey,
              tags |-> m.tags, trust |-> m.trust, project |-> m.project,
              createdAt |-> FormatRFC3339(m.createdAt),
              updatedAt |-> FormatRFC3339(m.updatedAt),
              accessCnt |-> m.accessCnt]
  IN IF m.id \in DOMAIN memories
     THEN [memories EXCEPT ![m.id] =
             [row EXCEPT !.createdAt = memories[m.id].createdAt]
               @@ [rowid |-> memories[m.id].rowid]]
     ELSE Put(memories, m.id, row @@ [rowid |-> NewRowid])

\* FtsSync without trigger memories_au: an updated row keeps its old entry
FtsSyncNoUpdate(old, new) ==
  LET gone == {old[i].rowid : i \in DOMAIN old \ DOMAIN new}
      kept == [r \in DOMAIN fts \ gone |-> fts[r]]
      added == DOMAIN new \ DOMAIN old
      rows == {new[i].rowid : i \in added}
      idOf(r) == CHOOSE i \in added : new[i].rowid = r
  IN [r \in (DOMAIN kept) \cup rows |->
        IF r \in rows THEN FtsColumns(new[idOf(r)]) ELSE kept[r]]

\* triggers memories_ai / memories_au / memories_ad: the keyword index after the
\* memory table changed from old to new
FtsSync(old, new) ==
  LET gone == {old[i].rowid : i \in DOMAIN old \ DOMAIN new}
      kept == [r \in DOMAIN fts \ gone |-> fts[r]]
      changed == {i \in DOMAIN new : i \notin DOMAIN old \/ old[i] # new[i]}
      rows == {new[i].rowid : i \in changed}
      idOf(r) == CHOOSE i \in changed : new[i].rowid = r
  IN [r \in (DOMAIN kept) \cup rows |->
        IF r \in rows THEN FtsColumns(new[idOf(r)]) ELSE kept[r]]

\* ------------------------------------------------------- embeddings tables
\* float32ToBytes with the most significant byte first
float32ToBytesBigEndian(floats) ==
  [k \in 1..(4 * Len(floats)) |->
     LET bits == floats[(k - 1) \div 4 + 1]
         shift == 3 - ((k - 1) % 4)
     IN ((IF shift < 2 THEN bits.lo ELSE bits.hi) \div (256 ^ (shift % 2))) % 256]

\* float32ToBytes: byte(bits), byte(bits >> 8), byte(bits >> 16), byte(bits >> 24)
\* of each element, an element being its 32-bit word
float32ToBytes(floats) ==
  [k \in 1..(4 * Len(floats)) |->
     LET bits == floats[(k - 1) \div 4 + 1]
         shift == (k - 1) % 4
     IN ((IF shift < 2 THEN bits.lo ELSE bits.hi) \div (256 ^ (shift % 2))) % 256]

\* bytesToFloat32: len(bytes)/4 words, each b0 | b1<<8 | b2<<16 | b3<<24 in 32
\* bits (the four terms share no bit, so the or is their sum)
bytesToFloat32(bytes) ==
  [i \in 1..(Len(bytes) \div 4) |->
     Word((bytes[4 * i - 1] + bytes[4 * i] * 256) % 65536,
          (bytes[4 * i - 3] + bytes[4 * i - 2] * 256) % 65536)]

\* DB.GetEmbedding: the cached vector of a memory, <<>> (nil) without a row
GetEmbedding(memoryID) ==
  IF memoryID \in DOMAIN embeddings THEN bytesToFloat32(embeddings[memoryID].vector)
  ELSE <<>>

\* SaveEmbedding as INSERT OR IGNORE: the first vector of an id stays
SaveEmbeddingKeepFirst(id, v, model, fault) ==
  IF fault = "cache"
  THEN [emb |-> embeddings, vec |-> vec, err |-> TRUE]
  ELSE LET emb2 == IF id \in DOMAIN embeddings THEN embeddings
                   ELSE Put(embeddings, id, [vector |-> float32ToBytes(v), model |-> model])
       IN IF fault = "vecins"
          THEN [emb |-> emb2, vec |-> vec, err |-> TRUE]
          ELSE [emb |-> emb2, vec |-> IF id \in DOMAIN vec THEN vec ELSE Put(vec, id, v),
                err |-> FALSE]

\* SaveEmbedding with the index refreshed before the cache row is written
SaveEmbeddingIndexFirst(id, v, model, fault) ==
  LET vec1 == IF fault = "vecdel" THEN vec ELSE Remove(vec, id)
      vec2 == IF fault = "vecins" \/ id \in DOMAIN vec1 THEN vec1 ELSE Put(vec1, id, v)
  IN IF fault = "cache"
     THEN [emb |-> embeddings, vec |-> vec2, err |-> TRUE]
     ELSE [emb |-> Put(embeddings, id, [vector |-> float32ToBytes(v), model |-> model]), vec |-> vec2,
           err |-> (fault = "vecins" \/ id \in DOMAIN vec1)]

\* DB.SaveEmbedding: upsert of the cache row, then DELETE (error ignored) and
\* INSERT on vec_memories.  Result: the two tables and the returned error.
SaveEmbedding(id, v, model, fault) ==
  IF fault = "cache"
  THEN [emb |-> embeddings, vec |-> vec, err |-> TRUE]
  ELSE LET emb2 == Put(embeddings, id, [vector |-> float32ToBytes(v), model |-> model])
           vec1 == IF fault = "vecdel" THEN vec ELSE Remove(vec, id)
       IN IF fault = "vecins" \/ id \in DOMAIN vec1
          THEN [emb |-> emb2, vec |-> vec1, err |-> TRUE]
          ELSE [emb |-> emb2, vec |-> Put(vec1, id, v), err |-> FALSE]

\* ------------------------------------------------------------------ Store
\* StoreMemory with tags, type and trust taken from the options also when the
\* option is absent
StoreMemoryReplacing(content, opts, existing, t2) ==
  IF existing.id # NoId
  THEN [existing EXCEPT !.content = content, !.updatedAt = now,
                        !.tags = opts.tags,
                        !.type = IF opts.type = "" THEN TypeGeneral ELSE opts.type,
                        !.trust = IF opts.trust = "" THEN TrustProposed ELSE opts.trust]
  ELSE [id |-> generateID, content |-> content,
        type |-> IF opts.type = "" THEN TypeGeneral ELSE opts.type,
        topicKey |-> opts.topicKey, tags |-> opts.tags,
        trust |-> IF opts.trust = "" THEN TrustProposed ELSE opts.trust,
        project |-> opts.project,
        createdAt |-> now, updatedAt |-> t2, accessCnt |-> 0]

\* Engine.Store.  existing is the memory the lookup returned, or NoMemory; t2 is
\* the second reading of the clock (create branch).
StoreMemory(content, opts, existing, t2) ==
  IF existing.id # NoId
  THEN [existing EXCEPT !.content = content,
                        !.updatedAt = now,
                        !.tags = IF ~opts.tags.isNil THEN opts.tags ELSE @,
                        !.type = IF opts.type # "" THEN opts.type ELSE @,
                        !.trust = IF opts.trust # "" THEN opts.trust ELSE @]
  ELSE [id |-> generateID, content |-> content,
        type |-> IF opts.type = "" THEN TypeGeneral ELSE opts.type,
        topicKey |-> opts.topicKey, tags |-> opts.tags,
        trust |-> IF opts.trust = "" THEN TrustProposed ELSE opts.trust,
        project |-> opts.project,
        createdAt |-> now, updatedAt |-> t2, accessCnt |-> 0]

Store(content, opts, fault, existing, t2) ==
  \E m \in {StoreMemory(content, opts, existing, t2)} :
  \E mems2 \in {SaveMemory(m)} :
  \E se \in {SaveEmbedding(m.id, Embed(content), EmbedModel, fault)} :
     /\ (existing.id = NoId => m.id \in MemIds)
     /\ now' = t2
     /\ UNCHANGED <<relations, deleted>>
     /\ IF fault = "save"
        THEN /\ UNCHANGED <<memories, embeddings, vec, fts>>
             /\ ret' = [op |-> "store", err |-> TRUE, lookupFailed |-> (fault = "lookup")]
        ELSE /\ memories' = mems2
             /\ fts' = FtsSync(memories, mems2)
             /\ IF fault = "embed"
                THEN UNCHANGED <<embeddings, vec>>
                ELSE embeddings' = se.emb /\ vec' = se.vec
             /\ ret' = [op |-> "store", err |-> FALSE,
                        created |-> (existing.id = NoId), mem |-> m, opts |-> opts,
                        warn |-> (fault = "embed" \/ se.err),
                        lookupFailed |-> (fault = "lookup")]

\* the ids the topic-key lookup of Store can yield: none without a key, none
\* when the read fails (the error is dropped)
StoreLookup(opts, fault) ==
  IF opts.topicKey # "" /\ fault # "lookup" /\ GetMemoryByTopicKey(opts.topicKey) # {}
  THEN GetMemoryByTopicKey(opts.topicKey)
  ELSE {NoId}

\* the steps of Store that can fail: the lookup runs only with a topic key
StoreFaultsOf(opts) ==
  IF opts.topicKey = "" THEN StoreFaults \ {"lookup"} ELSE StoreFaults

StoreCall ==
  /\ Called
  /\ \E content \in Contents, opts \in StoreOptionSet :
       \E fault \in StoreFaultsOf(opts) :
         \E found \in StoreLookup(opts, fault) :
           \E t2 \in (IF found = NoId THEN {now, now + 1} ELSE {now}) :
             /\ t2 <= MaxTime
             /\ Store(content, opts, fault, GetMemory(found), t2)

\* Server.toolStore: the options built from the arguments of cortex_store
toolStoreOptions(args) ==
  [source |-> "agent:mcp", trust |-> TrustProposed,
   type |-> IF args.type.given THEN args.type.value ELSE "",
   topicKey |-> IF args.topic_key.given THEN args.topic_key.value ELSE "",
   tags |-> NilTags, project |-> ""]

\* runStore: the options built from the flags, each flag at its default when
\* it is not given
runStoreOptions(flags) ==
  [type |-> IF flags.type.given THEN flags.type.value ELSE "general",
   topicKey |-> IF flags.key.given THEN flags.key.value ELSE "",
   tags |-> NilTags,
   trust |-> IF flags.trust.given THEN flags.trust.value ELSE "proposed",
   source |-> "cli", project |-> ""]

\* a store that arrives with the options opts of a boundary
BoundaryStore(content, opts) ==
  \E found \in StoreLookup(opts, "none") :
    \E t2 \in (IF found = NoId THEN {now, now + 1} ELSE {now}) :
      /\ t2 <= MaxTime
      /\ Store(content, opts, "none", GetMemory(found), t2)

ToolStoreCall ==
  /\ Called
  /\ \E content \in Contents, args \in ToolStoreArgs :
       BoundaryStore(content, toolStoreOptions(args))

RunStoreCall ==
  /\ Called
  /\ \E content \in Contents, flags \in RunStoreFlags :
       BoundaryStore(content, runStoreOptions(flags))

\* Store up to its lookup (line 71) by one caller, another caller's statements
\* being free to run before this one's write
StoreRead(c) ==
  /\ inflight[c] = Idle
  /\ calls < MaxCalls
  /\ calls' = calls + 1
  /\ \E content \in Contents, opts \in StoreOptionSet :
       \E found \in StoreLookup(opts, "none") :
         inflight' = [inflight EXCEPT ![c] =
                        [op |-> "store", content |-> content, opts |-> opts,
                         existing |-> GetMemory(found)]]
  /\ UNCHANGED <<memories, relations, embeddings, vec, fts, deleted, now, engine, server, ret>>

\* the rest of that Store: the record built from what the lookup returned is
\* saved and embedded
StoreWrite(c) ==
  /\ inflight[c] # Idle
  /\ inflight' = [inflight EXCEPT ![c] = Idle]
  /\ UNCHANGED <<calls, engine, server>>
  /\ \E t2 \in (IF inflight[c].existing.id = NoId THEN {now, now + 1} ELSE {now}) :
       /\ t2 <= MaxTime
       /\ Store(inflight[c].content, inflight[c].opts, "none", inflight[c].existing, t2)

\* ----------------------------------------------------------------- Recall
\* the text a row offers to the keyword index, as its set of tokens
RowTokens(cols) ==
  {cols.content} \cup (IF cols.topicKey = "" THEN {} ELSE {cols.topicKey})
                 \cup SetOfSeq(cols.tags.items)

\* DB.FTSSearch: the ids of up to limit rows whose indexed text matches the
\* query, joined to memories on rowid.  ORDER BY rank decides which rows a
\* LIMIT keeps; every choice is a possible result.  A failed query gives the
\* caller no ids (Recall drops the error).
FTSSearch(query, limit, fault) ==
  LET match == {i \in DOMAIN memories :
                  /\ memories[i].rowid \in DOMAIN fts
                  /\ query \in RowTokens(fts[memories[i].rowid])}
  IN IF fault = "fts" THEN {{}}
     ELSE IF limit < 0 \/ Cardinality(match) <= limit THEN {match}
     ELSE {S \in SUBSET match : Cardinality(S) = limit}

\* sequences over the ids of S without repetition
RECURSIVE Orderings(_)
Orderings(S) ==
  IF S = {} THEN {<<>>}
  ELSE UNION {{<<x>> \o t : t \in Orderings(S \ {x})} : x \in S}

\* DB.VectorSearch: the k nearest entries of vec_memories, ascending by
\* distance (ties in any order).  No trust level reaches the query.
KNearest(queryEmb, k) ==
  LET d(i) == Distance(queryEmb, vec[i])
      n == IF Cardinality(DOMAIN vec) <= k THEN Cardinality(DOMAIN vec) ELSE k
      picks == {S \in SUBSET DOMAIN vec :
                  /\ Cardinality(S) = n
                  /\ \A i \in S, j \in DOMAIN vec \ S : d(i) <= d(j)}
      sorted(t) == \A a, b \in DOMAIN t : a < b => d(t[a]) <= d(t[b])
  IN {[t \in DOMAIN o |-> [memoryId |-> o[t], distance |-> d(o[t])]] :
        o \in {o \in UNION {Orderings(S) : S \in picks} : sorted(o)}}

\* the outcomes of VectorSearch; a negative k is the index backend's to refuse
\* or to read as no rows or as no bound
VectorSearch(queryEmb, k, fault) ==
  IF fault = "vec" THEN {[err |-> TRUE, hits |-> <<>>]}
  ELSE IF k < 0
  THEN {[err |-> TRUE, hits |-> <<>>], [err |-> FALSE, hits |-> <<>>]}
         \cup {[err |-> FALSE, hits |-> h] : h \in KNearest(queryEmb, Cardinality(DOMAIN vec))}
  ELSE {[err |-> FALSE, hits |-> h] : h \in KNearest(queryEmb, k)}

\* FinalScore as a literal 70/30 split of semantic and keyword parts
FinalScoreSplit(distance, inFts) ==
  SemanticWeight * (IF 100 - distance \div 2 < 0 THEN 0 ELSE 100 - distance \div 2)
    + (IF inFts THEN 300 ELSE 0)

\* semanticScore, in hundredths: 1 - d/2, not below 0
SemanticScore(distance) ==
  IF 100 - distance \div 2 < 0 THEN 0 ELSE 100 - distance \div 2

\* finalScore, in thousandths
FinalScore(distance, inFts) ==
  SemanticWeight * SemanticScore(distance) + (IF inFts THEN KeywordBoost ELSE 0)

\* Combine with the kept results ordered by descending score
RECURSIVE CombineByScore(_, _, _, _)
CombineByScore(hits, ftsSet, minScore, seen) ==
  IF hits = <<>> THEN <<>>
  ELSE LET vr == Head(hits)
           memory == GetMemory(vr.memoryId)
           score == FinalScore(vr.distance, vr.memoryId \in ftsSet)
           rest == CombineByScore(Tail(hits), ftsSet, minScore, seen \cup {vr.memoryId})
           higher == SelectSeq(rest, LAMBDA e : e.score > score)
           lower == SelectSeq(rest, LAMBDA e : e.score <= score)
       IN IF vr.memoryId \in seen \/ memory.id = NoId \/ score < minScore
          THEN rest
          ELSE higher \o <<[id |-> memory.id, score |-> score, trust |-> memory.trust]>>
                 \o lower

\* Combine without the skip of a hit whose record is gone
RECURSIVE CombineNoSkip(_, _, _, _)
CombineNoSkip(hits, ftsSet, minScore, seen) ==
  IF hits = <<>> THEN <<>>
  ELSE LET vr == Head(hits)
           memory == GetMemory(vr.memoryId)
           score == FinalScore(vr.distance, vr.memoryId \in ftsSet)
           rest == CombineNoSkip(Tail(hits), ftsSet, minScore, seen \cup {vr.memoryId})
       IN IF vr.memoryId \in seen \/ score < minScore
          THEN rest
          ELSE <<[id |-> vr.memoryId, score |-> score,
                  trust |-> IF memory.id = NoId THEN "" ELSE memory.trust]>> \o rest

\* the loop of Recall over the vector hits: the results before truncation
RECURSIVE Combine(_, _, _, _)
Combine(hits, ftsSet, minScore, seen) ==
  IF hits = <<>> THEN <<>>
  ELSE LET vr == Head(hits)
           memory == GetMemory(vr.memoryId)
           score == FinalScore(vr.distance, vr.memoryId \in ftsSet)
           rest == Combine(Tail(hits), ftsSet, minScore, seen \cup {vr.memoryId})
       IN IF vr.memoryId \in seen \/ memory.id = NoId \/ score < minScore
          THEN rest
          ELSE <<[id |-> memory.id, score |-> score, trust |-> memory.trust]>> \o rest

\* Truncate with the cut forgotten
TruncateNever(results, limit) == results

\* results[:limit] when there are more than limit
Truncate(results, limit) ==
  IF Len(results) > limit THEN SubSeq(results, 1, limit) ELSE results

\* Counted with the increment moved behind the cut
CountedAfterCut(all, limit) ==
  {all[i].id : i \in DOMAIN all} \cap
    {all[i].id : i \in 1..(IF limit < Len(all) THEN limit ELSE Len(all))}

\* the memories whose IncrementAccessCount the loop runs: every kept result,
\* before the results are cut to limit
Counted(all, limit) == {all[i].id : i \in DOMAIN all}

\* the options of Recall after its defaults
RecallDefaults(opts) ==
  [limit |-> IF opts.limit = 0 THEN DefaultLimit ELSE opts.limit,
   minScore |-> IF opts.minScore = 0 THEN DefaultMinScore ELSE opts.minScore,
   trustLevels |-> IF opts.trustLevels = {} THEN {TrustValidated, TrustProven}
                   ELSE opts.trustLevels]

\* RecallAborts with the vector search's error dropped
RecallAbortsOnEmbedOnly(fault, vs) == fault = "embed"

\* the two failures that end Recall with an error
RecallAborts(fault, vs) == fault = "embed" \/ vs.err

\* Recall with an increment that also stamps updated_at
RecallTouchesUpdatedAt(query, opts, fault, vs, ftsIDs) ==
  \E o \in {RecallDefaults(opts)} :
  \E all \in {Combine(vs.hits, ftsIDs, o.minScore, {})} :
  \E hit \in {Counted(all, o.limit)} :
    /\ UNCHANGED <<relations, embeddings, vec, deleted, now>>
    /\ IF RecallAborts(fault, vs)
       THEN /\ UNCHANGED <<memories, fts>>
            /\ ret' = [op |-> "recall", err |-> TRUE, panic |-> FALSE, query |-> query,
                       opts |-> opts, fault |-> fault, hits |-> <<>>, kw |-> {},
                       results |-> <<>>]
       ELSE /\ \E mems2 \in {[i \in DOMAIN memories |->
                               IF i \in hit /\ fault # "inc"
                               THEN [memories[i] EXCEPT !.accessCnt = @ + 1,
                                                        !.updatedAt = @ + 1]
                               ELSE memories[i]]} :
                 /\ memories' = mems2
                 /\ fts' = FtsSync(memories, mems2)
            /\ ret' = [op |-> "recall", err |-> FALSE, panic |-> (o.limit < 0),
                       query |-> query, opts |-> opts, fault |-> fault,
                       hits |-> [i \in DOMAIN vs.hits |-> vs.hits[i].memoryId],
                       kw |-> ftsIDs,
                       results |-> IF o.limit < 0 THEN <<>> ELSE Truncate(all, o.limit)]

\* Engine.Recall: vs is the vector search's outcome, ftsIDs the keyword hits.
\* The error of IncrementAccessCount is dropped: with fault "inc" the UPDATEs of
\* the call fail and the results are built all the same.
Recall(query, opts, fault, vs, ftsIDs) ==
  \E o \in {RecallDefaults(opts)} :
  \E all \in {Combine(vs.hits, ftsIDs, o.minScore, {})} :
  \E hit \in {Counted(all, o.limit)} :
    /\ UNCHANGED <<relations, embeddings, vec, deleted, now>>
    /\ IF RecallAborts(fault, vs)
       THEN /\ UNCHANGED <<memories, fts>>
            /\ ret' = [op |-> "recall", err |-> TRUE, panic |-> FALSE, query |-> query,
                       opts |-> opts, fault |-> fault, hits |-> <<>>, kw |-> {},
                       results |-> <<>>]
       ELSE /\ \E mems2 \in {[i \in DOMAIN memories |->
                               IF i \in hit /\ fault # "inc"
                               THEN [memories[i] EXCEPT !.accessCnt = @ + 1]
                               ELSE memories[i]]} :
                 /\ memories' = mems2
                 /\ fts' = FtsSync(memories, mems2)
            /\ ret' = [op |-> "recall", err |-> FALSE, panic |-> (o.limit < 0),
                       query |-> query, opts |-> opts, fault |-> fault,
                       hits |-> [i \in DOMAIN vs.hits |-> vs.hits[i].memoryId],
                       kw |-> ftsIDs,
                       results |-> IF o.limit < 0 THEN <<>> ELSE Truncate(all, o.limit)]

RecallCall ==
  /\ Called
  /\ \E query \in Queries, opts \in RecallOptionSet, fault \in RecallFaults :
    \E vs \in VectorSearch(Embed(query), 2 * RecallDefaults(opts).limit, fault) :
      \E ftsIDs \in FTSSearch(query, 2 * RecallDefaults(opts).limit, fault) :
        Recall(query, opts, fault, vs, ftsIDs)

\* ----------------------------------------------------------------- Delete
\* DB.DeleteMemory: DELETE FROM memories WHERE id = ?.  The connection is opened
\* without foreign_keys, so no ON DELETE CASCADE runs; trigger memories_ad does.
DeleteMemory(id) == Remove(memories, id)

\* Engine.Delete
Delete(id, fault) ==
  /\ UNCHANGED <<relations, embeddings, vec, now>>
  /\ IF fault = "write"
     THEN /\ UNCHANGED <<memories, fts, deleted>>
          /\ ret' = [op |-> "delete", err |-> TRUE, id |-> id]
     ELSE /\ \E mems2 \in {DeleteMemory(id)} :
               /\ memories' = mems2
               /\ fts' = FtsSync(memories, mems2)
          /\ deleted' = IF id \in DOMAIN memories THEN deleted \cup {id} ELSE deleted
          /\ ret' = [op |-> "delete", err |-> FALSE, id |-> id]

DeleteCall == Called /\ \E id \in MemIds, fault \in WriteFaults : Delete(id, fault)

\* --------------------------------------------------------------- Validate
\* UpdateTrust without its WHERE clause
UpdateTrustEveryRow(id, trust) ==
  [i \in DOMAIN memories |->
     [memories[i] EXCEPT !.trust = trust, !.updatedAt = FormatRFC3339(now)]]

\* DB.UpdateTrust: UPDATE memories SET trust = ?, updated_at = ? WHERE id = ?
UpdateTrust(id, trust) ==
  [i \in DOMAIN memories |->
     IF i = id
     THEN [memories[i] EXCEPT !.trust = trust, !.updatedAt = FormatRFC3339(now)]
     ELSE memories[i]]

\* Engine.Validate
Validate(id, trust, fault) ==
  /\ UNCHANGED <<relations, embeddings, vec, deleted, now>>
  /\ IF fault = "write"
     THEN /\ UNCHANGED <<memories, fts>>
          /\ ret' = [op |-> "validate", err |-> TRUE, id |-> id, trust |-> trust]
     ELSE /\ \E mems2 \in {UpdateTrust(id, trust)} :
               /\ memories' = mems2
               /\ fts' = FtsSync(memories, mems2)
          /\ ret' = [op |-> "validate", err |-> FALSE, id |-> id, trust |-> trust]

\* the trust argument of a validate request: absent, or a string
NoTrustArg == [given |-> FALSE, value |-> ""]
ValidateArgs == {NoTrustArg} \cup {[given |-> TRUE, value |-> t] : t \in ValidateTrusts}

\* Server.toolValidate / runValidate: the level is validated unless one is given
toolValidateTrust(arg) == IF arg.given THEN arg.value ELSE TrustValidated

ValidateCall ==
  /\ Called
  /\ \E id \in MemIds, arg \in ValidateArgs, fault \in WriteFaults :
    Validate(id, toolValidateTrust(arg), fault)

\* ----------------------------------------------------------------- Relate
\* SaveRelation as an upsert on the endpoints and the type
SaveRelationUpsert(r) ==
  LET same == {x \in DOMAIN relations :
                 /\ relations[x].fromId = r.fromId /\ relations[x].toId = r.toId
                 /\ relations[x].type = r.type}
      row == [fromId |-> r.fromId, toId |-> r.toId, type |-> r.type,
              note |-> r.note, createdAt |-> FormatRFC3339(r.createdAt)]
  IN IF same = {} THEN Put(relations, r.id, row)
     ELSE [x \in DOMAIN relations |-> IF x \in same THEN row ELSE relations[x]]

\* DB.SaveRelation: a plain INSERT
SaveRelation(r) ==
  Put(relations, r.id, [fromId |-> r.fromId, toId |-> r.toId, type |-> r.type,
                        note |-> r.note, createdAt |-> FormatRFC3339(r.createdAt)])

\* Relate with the target checked after the edge is written
RelateWriteFirst(fromID, toID, relType, note, fault) ==
  /\ UNCHANGED <<memories, embeddings, vec, fts, deleted, now>>
  /\ IF fault = "read" \/ GetMemory(fromID).id = NoId \/ fault = "write"
     THEN /\ UNCHANGED relations
          /\ ret' = [op |-> "relate", err |-> TRUE, fault |-> fault,
                     args |-> [fromId |-> fromID, toId |-> toID, type |-> relType,
                               note |-> note]]
     ELSE \E r \in {[id |-> generateRelID, fromId |-> fromID, toId |-> toID,
                     type |-> relType, note |-> note, createdAt |-> now]} :
            /\ relations' = SaveRelation(r)
            /\ ret' = [op |-> "relate", err |-> (GetMemory(toID).id = NoId),
                       fault |-> fault, rel |-> r,
                       args |-> [fromId |-> fromID, toId |-> toID, type |-> relType,
                                 note |-> note]]

\* Engine.Relate
Relate(fromID, toID, relType, note, fault) ==
  /\ UNCHANGED <<memories, embeddings, vec, fts, deleted, now>>
  /\ IF \/ fault = "read"
        \/ GetMemory(fromID).id = NoId
        \/ GetMemory(toID).id = NoId
        \/ fault = "write"
     THEN /\ UNCHANGED relations
          /\ ret' = [op |-> "relate", err |-> TRUE, fault |-> fault,
                     args |-> [fromId |-> fromID, toId |-> toID, type |-> relType,
                               note |-> note]]
     ELSE \E r \in {[id |-> generateRelID, fromId |-> fromID, toId |-> toID,
                     type |-> relType, note |-> note, createdAt |-> now]} :
            /\ relations' = SaveRelation(r)
            /\ ret' = [op |-> "relate", err |-> FALSE, fault |-> fault, rel |-> r,
                       args |-> [fromId |-> fromID, toId |-> toID, type |-> relType,
                                 note |-> note]]

\* the ids of a set of rows in table order (the order they were inserted in)
RECURSIVE InTableOrder(_)
InTableOrder(S) ==
  IF S = {} THEN <<>>
  ELSE LET x == CHOOSE a \in S : \A b \in S : a <= b
       IN <<x>> \o InTableOrder(S \ {x})

\* DB.getRelations: SELECT ... FROM relations WHERE <column> = ?
getRelations(column, arg) ==
  LET rows == InTableOrder({r \in DOMAIN relations : relations[r][column] = arg})
  IN [k \in DOMAIN rows |->
        [id |-> rows[k], fromId |-> relations[rows[k]].fromId,
         toId |-> relations[rows[k]].toId, type |-> relations[rows[k]].type,
         note |-> relations[rows[k]].note,
         createdAt |-> ParseRFC3339(relations[rows[k]].createdAt)]]

GetRelationsFrom(memoryID) == getRelations("fromId", memoryID)
GetRelationsTo(memoryID) == getRelations("toId", memoryID)

\* GetRelations reporting the outgoing edges only
GetRelationsOutgoing(memoryID) == GetRelationsFrom(memoryID)

\* Engine.GetRelations: the outgoing edges, then the incoming ones
GetRelations(memoryID) == GetRelationsFrom(memoryID) \o GetRelationsTo(memoryID)

RelateCall ==
  /\ Called
  /\ \E fromID \in MemIds, toID \in MemIds, relType \in RelationTypes, note \in Notes,
     fault \in RelateFaults :
    Relate(fromID, toID, relType, note, fault)

\* ------------------------------------------------------------------- List
\* the characters of the strings that reach a LIKE
Chars(str) ==
  CASE str = "" -> <<>>
    [] str = "tk" -> <<"t", "k">>
    [] str = "TK" -> <<"T", "K">>

\* SQLite folds ASCII letters before LIKE compares them
Fold(c) == CASE c = "T" -> "t" [] c = "K" -> "k" [] OTHER -> c

\* value LIKE pattern, as SQLite evaluates it: % is any run of characters, _ is
\* any one character, letters compare without case
RECURSIVE Like(_, _)
Like(value, pattern) ==
  IF pattern = <<>> THEN value = <<>>
  ELSE IF Head(pattern) = "%"
       THEN Like(value, Tail(pattern)) \/ (value # <<>> /\ Like(Tail(value), pattern))
       ELSE /\ value # <<>>
            /\ Head(pattern) = "_" \/ Fold(Head(pattern)) = Fold(Head(value))
            /\ Like(Tail(value), Tail(pattern))

\* DB.ListMemories: the conditions of the WHERE clause joined by AND, ORDER BY
\* updated_at DESC (rows with one updated_at in any order), LIMIT when
\* opts.Limit > 0; the result lists the query can return
ListMemories(opts) ==
  LET match == {i \in DOMAIN memories :
                  /\ opts.types = {} \/ memories[i].type \in opts.types
                  /\ opts.trustLevels = {} \/ memories[i].trust \in opts.trustLevels
                  /\ opts.project = "" \/ memories[i].project = opts.project
                  /\ opts.topicKey = ""
                     \/ Like(Chars(memories[i].topicKey), Chars(opts.topicKey) \o <<"%">>)}
      ordered == {o \in Orderings(match) :
                    \A i, j \in 1..Len(o) :
                      i < j => memories[o[i]].updatedAt >= memories[o[j]].updatedAt}
      n(o) == IF opts.limit > 0 /\ opts.limit < Len(o) THEN opts.limit ELSE Len(o)
  IN {[k \in 1..n(o) |-> scanMemory(o[k], memories[o[k]])] : o \in ordered}

\* Engine.List
List(opts, fault, rows) ==
  /\ ret' = IF fault = "query"
            THEN [op |-> "list", err |-> TRUE, fault |-> fault, opts |-> opts]
            ELSE [op |-> "list", err |-> FALSE, fault |-> fault, opts |-> opts,
                  results |-> rows]
  /\ UNCHANGED <<memories, relations, embeddings, vec, fts, deleted, now>>

ListCall ==
  /\ Called
  /\ \E opts \in ListOptionSet, fault \in ListFaults :
       \E rows \in ListMemories(opts) : List(opts, fault, rows)

\* ------------------------------------------------------------------ Stats
\* DB.Stats: three COUNT(*) reads scanned into one variable, the Scan errors
\* dropped; a read that fails leaves the variable as the read before left it
Stats(fault) ==
  LET m == IF fault = "memories" THEN 0 ELSE Cardinality(DOMAIN memories)
      r == IF fault = "relations" THEN m ELSE Cardinality(DOMAIN relations)
      e == IF fault = "embeddings" THEN r ELSE Cardinality(DOMAIN embeddings)
  IN [memories |-> m, relations |-> r, embeddings |-> e, err |-> FALSE]

StatsCall ==
  /\ Called
  /\ \E fault \in StatsFaults :
       \E st \in {Stats(fault)} :
         ret' = [op |-> "stats", err |-> st.err, fault |-> fault,
                 stats |-> [memories |-> st.memories, relations |-> st.relations,
                            embeddings |-> st.embeddings]]
  /\ UNCHANGED <<memories, relations, embeddings, vec, fts, deleted, now>>

\* the clock advances between calls
Tick ==
  /\ now < MaxTime
  /\ now' = now + 1
  /\ UNCHANGED <<memories, relations, embeddings, vec, fts, deleted, calls, inflight,
                 engine, server, ret>>

Init ==
  /\ memories = <<>>
  /\ relations = <<>>
  /\ embeddings = <<>>
  /\ vec = <<>>
  /\ fts = <<>>
  /\ deleted = {}
  /\ now = 0
  /\ calls = 0
  /\ inflight = [c \in Callers |-> Idle]
  /\ engine = [c \in Callers |-> NoEngine]
  /\ server = [state |-> "running", read |-> 0, line |-> NoLine, sent |-> <<>>]
  /\ ret = [op |-> "none", err |-> FALSE]

Next ==
  \/ StoreCall
  \/ ToolStoreCall
  \/ RunStoreCall
  \/ RecallCall
  \/ DeleteCall
  \/ ValidateCall
  \/ RelateCall
  \/ ListCall
  \/ StatsCall
  \/ Tick

Spec == Init /\ [][Next]_vars

\* callers in separate processes on one database file: a store is two steps,
\* and recalls, deletes and other stores run between them
NextInterleaved ==
  \/ \E c \in Callers : StoreRead(c)
  \/ \E c \in Callers : StoreWrite(c)
  \/ RecallCall
  \/ DeleteCall
  \/ Tick

SpecInterleaved == Init /\ [][NextInterleaved]_vars

\* ------------------------------------------------------------ construction
\* db.New: sql.Open, then migrate; the connection is closed when migrate fails.
\* db: a DB is returned; opened: a connection was made; open: it is still open
dbNew(fault) ==
  IF fault = "open" THEN [db |-> FALSE, err |-> TRUE, opened |-> FALSE, open |-> FALSE]
  ELSE IF fault = "migrate"
       THEN [db |-> FALSE, err |-> TRUE, opened |-> TRUE, open |-> FALSE]
       ELSE [db |-> TRUE, err |-> FALSE, opened |-> TRUE, open |-> TRUE]

\* core.New without the database.Close() of the missing-key branch
NewKeepsStoreOnMissingKey(cfg, fault) ==
  IF fault = "mkdir"
  THEN [engine |-> FALSE, err |-> TRUE, opened |-> FALSE, open |-> FALSE]
  ELSE IF fault = "open"
  THEN [engine |-> FALSE, err |-> TRUE, opened |-> FALSE, open |-> FALSE]
  ELSE IF fault = "migrate"
  THEN [engine |-> FALSE, err |-> TRUE, opened |-> TRUE, open |-> FALSE]
  ELSE IF cfg.EmbeddingProvider \in {"openai", ""}
  THEN IF cfg.OpenAIKey = ""
       THEN [engine |-> FALSE, err |-> TRUE, opened |-> TRUE, open |-> TRUE]
       ELSE [engine |-> TRUE, err |-> FALSE, opened |-> TRUE, open |-> TRUE]
  ELSE [engine |-> FALSE, err |-> TRUE, opened |-> TRUE, open |-> FALSE]

\* core.New: MkdirAll, db.New, then the switch on cfg.EmbeddingProvider
New(cfg, fault) ==
  IF fault = "mkdir"
  THEN [engine |-> FALSE, err |-> TRUE, opened |-> FALSE, open |-> FALSE]
  ELSE LET database == dbNew(fault)
           closed == [engine |-> FALSE, err |-> TRUE, opened |-> database.opened,
                      open |-> FALSE]
       IN IF database.err
          THEN [engine |-> FALSE, err |-> TRUE, opened |-> database.opened,
                open |-> database.open]
          ELSE IF cfg.EmbeddingProvider \in {"openai", ""}
               THEN IF cfg.OpenAIKey = ""
                    THEN closed
                    ELSE [engine |-> TRUE, err |-> FALSE, opened |-> database.opened,
                          open |-> database.open]
               ELSE IF cfg.EmbeddingProvider = "ollama"
                    THEN closed
                    ELSE closed

\* a caller constructs its engine
NewCall(c) ==
  /\ ~engine[c].open
  /\ \E cfg \in Configs, fault \in NewFaults :
       \E e \in {New(cfg, fault)} :
         engine' = [engine EXCEPT ![c] =
                      [op |-> "new", cfg |-> cfg, fault |-> fault, engine |-> e.engine,
                       err |-> e.err, opened |-> e.opened, open |-> e.open]]
  /\ UNCHANGED <<memories, relations, embeddings, vec, fts, deleted, now, calls, inflight, ret, server>>

\* Engine.Close: the caller releases the engine it holds
CloseCall(c) ==
  /\ engine[c].engine
  /\ engine' = [engine EXCEPT ![c] =
                  [op |-> "close", engine |-> FALSE, err |-> FALSE, opened |-> TRUE,
                   open |-> FALSE]]
  /\ UNCHANGED <<memories, relations, embeddings, vec, fts, deleted, now, calls, inflight, ret, server>>

NextNew == (\E c \in Callers : NewCall(c)) \/ (\E c \in Callers : CloseCall(c))

SpecNew == Init /\ [][NextNew]_vars

\* ----------------------------------------------------------------- server
\* the responses send writes: a result, or an error with its code
Result(id, isError) == [id |-> id, kind |-> "result", code |-> 0, isError |-> isError]
Error(id, code) == [id |-> id, kind |-> "error", code |-> code, isError |-> FALSE]

\* a request line: its id, its method and, for tools/call, "bad" for params
\* that do not unmarshal or the name of the tool
Request(id, method, params) ==
  [kind |-> "request", id |-> id, method |-> method, params |-> params]

\* the input lines that reach no tool: a blank line, a line that is not JSON,
\* and requests by method
SimpleLines(id) ==
  { [kind |-> "blank", id |-> NoId, method |-> "", params |-> ""],
    [kind |-> "garbage", id |-> NoId, method |-> "", params |-> ""],
    Request(id, "initialize", ""),
    Request(id, "tools/list", ""),
    Request(NoId, "notifications/initialized", ""),
    Request(id, "resources/list", ""),
    Request(id, "tools/call", "bad"),
    Request(id, "tools/call", "cortex_forget") }

\* Run / handleRequest / handleToolsCall for those lines: what is sent
Respond(line) ==
  IF line.kind = "blank" THEN <<>>
  ELSE IF line.kind = "garbage" THEN <<Error(NoId, -32700)>>
  ELSE IF line.method \in {"initialize", "tools/list"} THEN <<Result(line.id, FALSE)>>
  ELSE IF line.method = "tools/call"
       THEN IF line.params = "bad" THEN <<Error(line.id, -32602)>>
            ELSE <<Error(line.id, -32601)>>
       ELSE IF line.method = "notifications/initialized" THEN <<>>
            ELSE <<Error(line.id, -32601)>>

\* one pass of the loop of Run over a line: the line is read and what its
\* handler sent is written to the output
Served(line, responses, state) ==
  /\ server.state = "running"
  /\ server.read < MaxLines
  /\ server' = [state |-> state, read |-> server.read + 1, line |-> line,
                sent |-> server.sent \o responses]
  /\ UNCHANGED <<calls, inflight, engine>>

\* a line that reaches no tool
ServeSimple ==
  /\ \E line \in SimpleLines(server.read + 1) : Served(line, Respond(line), "running")
  /\ UNCHANGED <<memories, relations, embeddings, vec, fts, deleted, now, ret>>

\* tools/call cortex_store
ServeToolStore ==
  \E content \in Contents, args \in ToolStoreArgs :
    /\ BoundaryStore(content, toolStoreOptions(args))
    /\ Served(Request(server.read + 1, "tools/call", "cortex_store"),
              <<Result(server.read + 1, ret'.err)>>, "running")

\* the limit argument of cortex_recall
NoLimitArg == [given |-> FALSE, value |-> 0]
RecallLimitArgs == {NoLimitArg, [given |-> TRUE, value |-> 1], [given |-> TRUE, value |-> -1]}

\* Server.toolRecall: the options built from the arguments
toolRecallOptions(limit) ==
  [limit |-> IF limit.given THEN limit.value ELSE DefaultLimit,
   minScore |-> DefaultMinScore, trustLevels |-> {TrustValidated, TrustProven},
   types |-> {}, tags |-> <<>>, project |-> "", topicKey |-> ""]

\* tools/call cortex_recall: a panic inside Recall ends the process before
\* anything is sent
ServeToolRecall ==
  \E query \in Contents, limit \in RecallLimitArgs :
    \E opts \in {toolRecallOptions(limit)} :
      \E vs \in VectorSearch(Embed(query), 2 * RecallDefaults(opts).limit, "none") :
        \E ftsIDs \in FTSSearch(query, 2 * RecallDefaults(opts).limit, "none") :
          /\ Recall(query, opts, "none", vs, ftsIDs)
          /\ IF ret'.panic
             THEN Served(Request(server.read + 1, "tools/call", "cortex_recall"), <<>>,
                         "crashed")
             ELSE Served(Request(server.read + 1, "tools/call", "cortex_recall"),
                         <<Result(server.read + 1, ret'.err)>>, "running")

\* tools/call cortex_validate
ServeToolValidate ==
  \E id \in MemIds, arg \in {NoTrustArg, [given |-> TRUE, value |-> TrustProven]} :
    /\ Validate(id, toolValidateTrust(arg), "none")
    /\ Served(Request(server.read + 1, "tools/call", "cortex_validate"),
              <<Result(server.read + 1, ret'.err)>>, "running")

\* tools/call cortex_relate
ServeToolRelate ==
  \E fromID \in MemIds, toID \in MemIds :
    /\ Relate(fromID, toID, "solves", "", "none")
    /\ Served(Request(server.read + 1, "tools/call", "cortex_relate"),
              <<Result(server.read + 1, ret'.err)>>, "running")

\* Server.toolLearnError: the content it formats and the options it stores with
LearnedContent == "ERROR: bug\nSOLUTION: fix"
toolLearnErrorOptions ==
  [type |-> "error", source |-> "agent:mcp:learn_error", trust |-> TrustProposed,
   tags |-> Tags(<<"learned-error">>), topicKey |-> "", project |-> ""]

\* tools/call cortex_learn_error
ServeToolLearnError ==
  /\ BoundaryStore(LearnedContent, toolLearnErrorOptions)
  /\ Served(Request(server.read + 1, "tools/call", "cortex_learn_error"),
            <<Result(server.read + 1, ret'.err)>>, "running")

\* ReadString returns io.EOF: Run returns, whether or not an unterminated last
\* line came with it
ServeEOF ==
  /\ server.state = "running"
  /\ \E partial \in BOOLEAN :
       server' = [server EXCEPT !.state = "ended",
                                !.line = [kind |-> "eof", id |-> NoId, method |-> "",
                                          params |-> IF partial THEN "partial" ELSE ""]]
  /\ UNCHANGED <<memories, relations, embeddings, vec, fts, deleted, now, calls, inflight,
                 engine, ret>>

NextServer ==
  \/ ServeSimple
  \/ ServeToolStore
  \/ ServeToolRecall
  \/ ServeToolValidate
  \/ ServeToolRelate
  \/ ServeToolLearnError
  \/ ServeEOF

SpecServer == Init /\ [][NextServer]_vars

\* --------------------------------------------- SaveEmbedding, statement-wise
\* SaveEmbedding run by callers on separate connections, one statement per step.
\* First statement: the upsert of the cache row.
SaveEmbeddingCache(c) ==
  /\ inflight[c] = Idle
  /\ calls < MaxCalls
  /\ calls' = calls + 1
  /\ \E id \in MemIds, text \in Queries :
       /\ embeddings' = Put(embeddings, id,
                            [vector |-> float32ToBytes(Embed(text)), model |-> EmbedModel])
       /\ inflight' = [inflight EXCEPT ![c] =
                         [op |-> "saveEmbedding", pc |-> "delete", id |-> id,
                          v |-> Embed(text)]]
  /\ UNCHANGED <<memories, relations, vec, fts, deleted, now, engine, server, ret>>

\* second statement: DELETE FROM vec_memories WHERE memory_id = ?
SaveEmbeddingDelete(c) ==
  /\ inflight[c] # Idle
  /\ inflight[c].pc = "delete"
  /\ vec' = Remove(vec, inflight[c].id)
  /\ inflight' = [inflight EXCEPT ![c].pc = "insert"]
  /\ UNCHANGED <<memories, relations, embeddings, fts, deleted, now, calls, engine, server, ret>>

\* third statement: INSERT INTO vec_memories, which fails on a memory_id the
\* table already holds (PRIMARY KEY); its error is the call's return value
SaveEmbeddingInsert(c) ==
  /\ inflight[c] # Idle
  /\ inflight[c].pc = "insert"
  /\ vec' = IF inflight[c].id \in DOMAIN vec THEN vec
            ELSE Put(vec, inflight[c].id, inflight[c].v)
  /\ ret' = [op |-> "saveEmbedding", err |-> (inflight[c].id \in DOMAIN vec),
             fault |-> "none", id |-> inflight[c].id, v |-> inflight[c].v]
  /\ inflight' = [inflight EXCEPT ![c] = Idle]
  /\ UNCHANGED <<memories, relations, embeddings, fts, deleted, now, calls, engine, server>>

NextSave ==
  \/ \E c \in Callers : SaveEmbeddingCache(c)
  \/ \E c \in Callers : SaveEmbeddingDelete(c)
  \/ \E c \in Callers : SaveEmbeddingInsert(c)

SpecSave == Init /\ [][NextSave]_vars

\* DB.SaveEmbedding called on its own, for one memory id per run
SaveEmbeddingCall ==
  \E id \in MemIds, v \in CodecVectors, fault \in SaveEmbeddingFaults :
    \E se \in {SaveEmbedding(id, v, EmbedModel, fault)} :
      /\ DOMAIN embeddings \subseteq {id}
      /\ embeddings' = se.emb
      /\ vec' = se.vec
      /\ ret' = [op |-> "saveEmbedding", err |-> se.err, fault |-> fault, id |-> id, v |-> v]
      /\ UNCHANGED <<memories, relations, fts, deleted, now, calls, inflight, engine, server>>

\* DB.GetEmbedding called on its own
GetEmbeddingCall ==
  \E id \in MemIds :
    /\ ret.op = "saveEmbedding"
    /\ ret' = [op |-> "getEmbedding", err |-> FALSE, id |-> id, got |-> GetEmbedding(id)]
    /\ UNCHANGED <<memories, relations, embeddings, vec, fts, deleted, now, calls, inflight,
                   engine, server>>

NextCodec == SaveEmbeddingCall \/ GetEmbeddingCall

SpecCodec == Init /\ [][NextCodec]_vars

\* ------------------------------------------------------------------ claims
\* the step is a call (Tick leaves calls alone)
IsCall == calls' = calls + 1
\* the memories that carry a topic key
Holders(mems, key) == {i \in DOMAIN mems : mems[i].topicKey = key}
\* a recall that returned to its caller without an error
RecallReturned == ret.op = "recall" /\ ~ret.err /\ ~ret.panic

\* C1: a store that creates a record under a non-empty topic key, followed by a
\* successful store under the same key, gives the same id and the same createdAt
\* back, leaves the second content in the record and one record under the key.
C1_StoreTwiceStep ==
  ( /\ IsCall
    /\ ret.op = "store" /\ ~ret.err /\ ret.created /\ ret.mem.topicKey # ""
    /\ ret'.op = "store" /\ ~ret'.err /\ ret'.mem.topicKey = ret.mem.topicKey )
  => /\ ret'.mem.id = ret.mem.id
     /\ ret'.mem.createdAt = ret.mem.createdAt
     /\ ret.mem.id \in DOMAIN memories'
     /\ memories'[ret.mem.id].content = ret'.mem.content
     /\ Cardinality(Holders(memories', ret.mem.topicKey)) = 1
C1_StoreTwiceSameKey == [][C1_StoreTwiceStep]_vars

\* C2: each non-empty topic key is held by at most one memory record.
C2_TopicKeyUnique ==
  \A i, j \in DOMAIN memories :
    (i # j /\ memories[i].topicKey # "") => memories[i].topicKey # memories[j].topicKey

\* C3: a recall that returns successfully returns at most limit results (5 when
\* the option is 0), each with a score of at least minScore (0.3 when it is 0).
C3_RecallLimitAndMinScore ==
  RecallReturned =>
    /\ Len(ret.results) <= (IF ret.opts.limit = 0 THEN 5 ELSE ret.opts.limit)
    /\ \A k \in DOMAIN ret.results :
         ret.results[k].score >= (IF ret.opts.minScore = 0 THEN 300 ELSE ret.opts.minScore)

\* two memories passed the threshold (both were counted) and one was returned
C3_Witness ==
  /\ RecallReturned
  /\ ret.fault = "none"
  /\ ret.opts.limit = 1
  /\ Len(ret.results) = 1
  /\ \E i, j \in DOMAIN memories :
       i # j /\ memories[i].accessCnt = 1 /\ memories[j].accessCnt = 1

\* C4: every memory recall returns has a trust level among the requested ones,
\* {validated, proven} when none is requested.
C4_RecallTrustFilter ==
  RecallReturned =>
    \A k \in DOMAIN ret.results :
      ret.results[k].trust \in
        (IF ret.opts.trustLevels = {} THEN {"validated", "proven"}
         ELSE ret.opts.trustLevels)

\* C5: after a successful delete of an existing memory, get of its id finds
\* nothing and no later recall returns it.
C5_DeletedUnreachable ==
  /\ \A id \in deleted : GetMemory(id).id = NoId
  /\ RecallReturned => \A k \in DOMAIN ret.results : ret.results[k].id \notin deleted

\* a recall ran over a vector index that still holds a deleted memory's entry
C5_Witness ==
  /\ RecallReturned
  /\ ret.fault = "none"
  /\ \E id \in deleted : id \in DOMAIN vec /\ vec[id] = Embed(ret.query)

\* C6: every stored relation's fromId and toId reference existing memories.
C6_RelationEndpointsExist ==
  \A r \in DOMAIN relations :
    relations[r].fromId \in DOMAIN memories /\ relations[r].toId \in DOMAIN memories

\* C7: a deleted memory has no embedding-cache row, no vector-index entry and
\* no keyword-index entry, so the embeddings never outnumber the memories.
C7_DeleteCascades ==
  /\ \A id \in deleted : id \notin DOMAIN embeddings /\ id \notin DOMAIN vec
  /\ DOMAIN fts \subseteq {memories[i].rowid : i \in DOMAIN memories}
  /\ Cardinality(DOMAIN embeddings) <= Cardinality(DOMAIN memories)

\* C8: a store, relate, validate or delete that returns an error leaves the
\* memory table and the relation table as they were.
C8_ErrorStep ==
  (IsCall /\ ret'.op \in {"store", "relate", "validate", "delete"} /\ ret'.err)
  => memories' = memories /\ relations' = relations
C8_ErrorMeansNoChange == [][C8_ErrorStep]_vars

\* a relate was refused while the tables held a memory
C8_Witness == ret.op = "relate" /\ ret.err /\ DOMAIN memories # {}

\* C9 as claimed: a store whose embedding step failed returns the memory, the
\* record holds the content, and the vector index has no entry for it.
C9_StoreEmbedFailStep ==
  (IsCall /\ ret'.op = "store" /\ ~ret'.err /\ ret'.warn)
  => /\ ret'.mem.id \in DOMAIN memories'
     /\ memories'[ret'.mem.id].content = ret'.mem.content
     /\ ret'.mem.id \notin DOMAIN vec'
C9_InvisibleAfterEmbedFailure == [][C9_StoreEmbedFailStep]_vars

\* C9 as amended: a store whose embedding step failed returns the memory and the
\* record holds the content; a record it created has no vector-index entry, a
\* record it evolved keeps the entry it had or has none; an id enters the
\* vector index only by a store of it whose embedding step succeeded.
C9_AmendedStep ==
  /\ (IsCall /\ ret'.op = "store" /\ ~ret'.err /\ ret'.warn)
     => /\ ret'.mem.id \in DOMAIN memories'
        /\ memories'[ret'.mem.id].content = ret'.mem.content
        /\ ret'.created => ret'.mem.id \notin DOMAIN vec'
        /\ (ret'.mem.id \in DOMAIN vec')
             => (ret'.mem.id \in DOMAIN vec /\ vec'[ret'.mem.id] = vec[ret'.mem.id])
  /\ \A id \in DOMAIN vec' \ DOMAIN vec :
       ret'.op = "store" /\ ~ret'.err /\ ~ret'.warn /\ ret'.mem.id = id
C9_EmbedFailureLeavesIndexStale == [][C9_AmendedStep]_vars

\* an evolving store lost its embedding and the index still has the old entry,
\* which is not the new content's vector
C9_Witness ==
  /\ ret.op = "store" /\ ~ret.err /\ ret.warn /\ ~ret.created
  /\ ret.mem.id \in DOMAIN vec
  /\ vec[ret.mem.id] # Embed(ret.mem.content)

\* C10: recall fails, returns nothing and counts no access when the query
\* embedding or the vector search fails; when only the keyword search fails it
\* succeeds and no result carries the keyword boost.
C10_RecallFaultStep ==
  (IsCall /\ ret'.op = "recall" /\ ret'.opts.limit >= 0)
  => /\ ret'.fault \in {"embed", "vec"}
          => ret'.err /\ ret'.results = <<>> /\ memories' = memories
     /\ ret'.fault = "fts"
          => /\ ~ret'.err
             /\ \A k \in DOMAIN ret'.results :
                  /\ ret'.results[k].id \in DOMAIN vec
                  /\ ret'.results[k].score =
                       7 * SemanticScore(Distance(Embed(ret'.query), vec[ret'.results[k].id]))
C10_RecallFailureModes == [][C10_RecallFaultStep]_vars

\* the keyword search failed for a query the returned memory's text matches
C10_Witness ==
  /\ RecallReturned
  /\ ret.fault = "fts"
  /\ \E k \in DOMAIN ret.results :
       ret.query \in RowTokens(fts[memories[ret.results[k].id].rowid])

\* the first position of x in the sequence h
FirstPos(h, x) == CHOOSE i \in DOMAIN h : h[i] = x /\ \A j \in 1..(i - 1) : h[j] # x

\* C11: the results of recall are a subsequence of the vector-search hits: no
\* memory id twice, and any two results in the order of their first occurrences
\* among the hits (the results are not re-sorted by score).
C11_ResultsInHitOrder ==
  RecallReturned =>
    /\ \A k \in DOMAIN ret.results : ret.results[k].id \in SetOfSeq(ret.hits)
    /\ \A k, l \in DOMAIN ret.results :
         k < l => /\ ret.results[k].id # ret.results[l].id
                  /\ FirstPos(ret.hits, ret.results[k].id)
                       < FirstPos(ret.hits, ret.results[l].id)

\* two results were returned and the later one has the higher score
C11_Witness ==
  /\ RecallReturned
  /\ Len(ret.results) = 2
  /\ ret.results[2].score > ret.results[1].score

\* C12: every reported score is 0.7 * clamp(1 - d/2, 0, 1) for the hit's
\* distance d, plus 0.15 exactly when the id is a keyword hit, and lies in
\* [0, 0.85].
C12_ScoreFormula ==
  RecallReturned =>
    \A k \in DOMAIN ret.results :
      LET id == ret.results[k].id
          d == Distance(Embed(ret.query), vec[id])
          s == 100 - d \div 2
          clamp == IF s < 0 THEN 0 ELSE IF s > 100 THEN 100 ELSE s
      IN /\ id \in DOMAIN vec
         /\ ret.results[k].score = 7 * clamp + (IF id \in ret.kw THEN 150 ELSE 0)
         /\ ret.results[k].score >= 0
         /\ ret.results[k].score <= 850

\* a hit farther than 2 from the query was reported, on its keyword boost alone
C12_Witness ==
  /\ RecallReturned
  /\ \E k \in DOMAIN ret.results :
       /\ Distance(Embed(ret.query), vec[ret.results[k].id]) > 200
       /\ ret.results[k].id \in ret.kw
       /\ ret.results[k].score = 150

\* C13: in a recall that returns, every de-duplicated vector hit whose record
\* exists and whose score reaches minScore is counted once (its accessCount
\* grows by 1 when the increment is written, also when the limit cuts it off),
\* no other counter changes, at most 2*limit are counted, and a failed
\* increment neither fails the recall nor drops a result.
C13_AccessCountStep ==
  (IsCall /\ ret'.op = "recall" /\ ~ret'.err /\ ~ret'.panic)
  => LET o == RecallDefaults(ret'.opts)
         kept == {id \in SetOfSeq(ret'.hits) \cap DOMAIN memories :
                    7 * SemanticScore(Distance(Embed(ret'.query), vec[id]))
                      + (IF id \in ret'.kw THEN 150 ELSE 0) >= o.minScore}
     IN /\ DOMAIN memories' = DOMAIN memories
        /\ \A id \in DOMAIN memories :
             memories'[id].accessCnt =
               memories[id].accessCnt + (IF id \in kept /\ ret'.fault # "inc" THEN 1 ELSE 0)
        /\ Cardinality(kept) <= 2 * o.limit
        /\ {ret'.results[k].id : k \in DOMAIN ret'.results} \subseteq kept
        /\ Len(ret'.results) = (IF Cardinality(kept) < o.limit THEN Cardinality(kept)
                                ELSE o.limit)
C13_AccessCountPerKeptHit == [][C13_AccessCountStep]_vars

\* a recall with limit 1 counted a memory that it did not return
C13_Witness ==
  /\ RecallReturned
  /\ ret.fault = "none"
  /\ \E id \in SetOfSeq(ret.hits) \cap DOMAIN memories :
       /\ \A k \in DOMAIN ret.results : ret.results[k].id # id
       /\ memories[id].accessCnt = 1

\* C14: the stored accessCount of a memory is nonnegative and never decreases
\* while the record lives, also when a recall of another caller runs between
\* the read and the write of a store that evolves the record.
C14_AccessCountStep ==
  \A id \in DOMAIN memories \cap DOMAIN memories' :
    memories'[id].accessCnt >= memories[id].accessCnt /\ memories[id].accessCnt >= 0
C14_AccessCountMonotonic == [][C14_AccessCountStep]_vars

\* C15: a store that finds a record for its topic key replaces content and
\* updatedAt, replaces tags, type and trust only where the option was given, and
\* leaves id, createdAt, topicKey, accessCount and metadata of the record, and
\* every other record, as they were.
C15_EvolveStep ==
  (IsCall /\ ret'.op = "store" /\ ~ret'.err /\ ~ret'.created)
  => LET id == ret'.mem.id
         o == ret'.opts
     IN /\ id \in DOMAIN memories
        /\ DOMAIN memories' = DOMAIN memories
        /\ memories'[id].content = ret'.mem.content
        /\ memories'[id].updatedAt = now' \div TicksPerSecond
        /\ memories'[id].tags = (IF o.tags.isNil THEN memories[id].tags ELSE o.tags)
        /\ memories'[id].type = (IF o.type = "" THEN memories[id].type ELSE o.type)
        /\ memories'[id].trust = (IF o.trust = "" THEN memories[id].trust ELSE o.trust)
        /\ memories'[id].createdAt = memories[id].createdAt
        /\ memories'[id].topicKey = memories[id].topicKey
        /\ memories'[id].accessCnt = memories[id].accessCnt
        /\ memories'[id].project = memories[id].project
        /\ \A other \in DOMAIN memories \ {id} : memories'[other] = memories[other]
C15_EvolveFrame == [][C15_EvolveStep]_vars

\* a store with no tags, type or trust evolved a counted record that carries
\* tags, a type and a trust of its own
C15_Witness ==
  /\ ret.op = "store" /\ ~ret.err /\ ~ret.created
  /\ ret.opts.tags.isNil /\ ret.opts.type = "" /\ ret.opts.trust = ""
  /\ memories[ret.mem.id].trust = "validated"
  /\ memories[ret.mem.id].type = "pattern"
  /\ ~memories[ret.mem.id].tags.isNil
  /\ memories[ret.mem.id].project = "cortex"
  /\ memories[ret.mem.id].accessCnt = 1

\* C16: a store that creates a record gives it createdAt = updatedAt,
\* accessCount 0, the supplied type and trust or general and proposed, and an id
\* no record of the store has.
C16_CreateStep ==
  (IsCall /\ ret'.op = "store" /\ ~ret'.err /\ ret'.created)
  => LET id == ret'.mem.id
         o == ret'.opts
     IN /\ id \notin DOMAIN memories
        /\ id \in DOMAIN memories'
        /\ ret'.mem.createdAt = ret'.mem.updatedAt
        /\ memories'[id].createdAt = memories'[id].updatedAt
        /\ memories'[id].accessCnt = 0
        /\ memories'[id].type = (IF o.type = "" THEN "general" ELSE o.type)
        /\ memories'[id].trust = (IF o.trust = "" THEN "proposed" ELSE o.trust)
C16_CreatedRecord == [][C16_CreateStep]_vars

\* C17: after relate(a, b, ...) succeeds for distinct memories a and b,
\* getRelations(a) and getRelations(b) each hold that edge exactly once, with
\* fromId = a and toId = b.
C17_EdgeReportedOncePerEndpoint ==
  (ret.op = "relate" /\ ~ret.err /\ ret.rel.fromId # ret.rel.toId)
  => \A m \in {ret.rel.fromId, ret.rel.toId} :
       LET rs == GetRelations(m)
           at == {k \in DOMAIN rs : rs[k].id = ret.rel.id}
       IN /\ Cardinality(at) = 1
          /\ \A k \in at : rs[k].fromId = ret.rel.fromId /\ rs[k].toId = ret.rel.toId

\* an edge between two different memories was stored
C17_Witness ==
  /\ ret.op = "relate" /\ ~ret.err
  /\ ret.rel.fromId # ret.rel.toId
  /\ ret.rel.id \in DOMAIN relations

\* C18: relate fails and writes no edge when an endpoint does not exist; a
\* relate that succeeds adds exactly one new edge with the given endpoints, type
\* and note, also when an equal edge is already stored; with both endpoints
\* present and the storage working it succeeds.
C18_RelateStep ==
  (IsCall /\ ret'.op = "relate")
  => LET a == ret'.args
     IN /\ (a.fromId \notin DOMAIN memories \/ a.toId \notin DOMAIN memories)
             => (ret'.err /\ relations' = relations)
        /\ (a.fromId \in DOMAIN memories /\ a.toId \in DOMAIN memories
              /\ ret'.fault = "none") => ~ret'.err
        /\ ~ret'.err =>
             \E r \in DOMAIN relations' \ DOMAIN relations :
               /\ DOMAIN relations' = DOMAIN relations \cup {r}
               /\ relations'[r].fromId = a.fromId /\ relations'[r].toId = a.toId
               /\ relations'[r].type = a.type /\ relations'[r].note = a.note
               /\ \A x \in DOMAIN relations : relations'[x] = relations[x]
C18_RelateChecksAndAppends == [][C18_RelateStep]_vars

\* the same relate succeeded twice and two edges are stored
C18_Witness ==
  /\ ret.op = "relate" /\ ~ret.err
  /\ \E x \in DOMAIN relations :
       /\ x # ret.rel.id
       /\ relations[x].fromId = ret.args.fromId /\ relations[x].toId = ret.args.toId
       /\ relations[x].type = ret.args.type /\ relations[x].note = ret.args.note

\* C19: no record holds a type or a trust outside its enum and no edge a
\* relation type outside the relation enum (such a value is refused before
\* anything is written).
C19_EnumsEnforced ==
  /\ \A i \in DOMAIN memories :
       memories[i].type \in MemoryTypeEnum /\ memories[i].trust \in TrustLevelEnum
  /\ \A r \in DOMAIN relations : relations[r].type \in RelationTypeEnum

\* C20: validate and delete of an id that references no memory return an error
\* and change no record.
C20_MissingIdStep ==
  (IsCall /\ ret'.op \in {"validate", "delete"} /\ ret'.id \notin DOMAIN memories)
  => ret'.err /\ memories' = memories
C20_MissingIdIsNotFound == [][C20_MissingIdStep]_vars

\* C21: validate of an existing memory sets its trust to the given level
\* (validated when none is given), may change its updatedAt, and leaves the rest
\* of the record, every other memory, the relations and the embeddings as they
\* were; validated is a level a default recall asks for.
C21_ValidateStep ==
  (IsCall /\ ret'.op = "validate" /\ ~ret'.err /\ ret'.id \in DOMAIN memories)
  => /\ memories' = [memories EXCEPT ![ret'.id].trust = ret'.trust,
                                     ![ret'.id].updatedAt = memories'[ret'.id].updatedAt]
     /\ relations' = relations /\ embeddings' = embeddings /\ vec' = vec
     /\ toolValidateTrust(NoTrustArg) = "validated"
     /\ "validated" \in RecallDefaults([limit |-> 0, minScore |-> 0,
                                        trustLevels |-> {}]).trustLevels
C21_ValidateFrame == [][C21_ValidateStep]_vars

\* a default recall returned a memory that was stored as proposed and validated
C21_Witness ==
  /\ RecallReturned
  /\ ret.opts.trustLevels = {}
  /\ \E k \in DOMAIN ret.results :
       /\ ret.results[k].trust = "validated"
       /\ memories[ret.results[k].id].type = "general"

\* C22: the keyword index holds exactly one entry per memory row, built from
\* the row's current content, topicKey and tags, so keyword search returns no
\* deleted id and matches no record on text it no longer has.
C22_KeywordIndexInSync ==
  /\ DOMAIN fts = {memories[i].rowid : i \in DOMAIN memories}
  /\ \A i, j \in DOMAIN memories : i # j => memories[i].rowid # memories[j].rowid
  /\ \A i \in DOMAIN memories :
       fts[memories[i].rowid] = [content |-> memories[i].content,
                                 topicKey |-> memories[i].topicKey,
                                 tags |-> memories[i].tags]
  /\ \A q \in Queries : \A S \in FTSSearch(q, 2 * DefaultLimit, "none") :
       /\ S \cap deleted = {}
       /\ \A id \in S : q \in {memories[id].content, memories[id].topicKey}
                                 \cup SetOfSeq(memories[id].tags.items)

\* a record was evolved to a content its vector does not belong to, and the
\* keyword index has the new content
C22_Witness ==
  /\ ret.op = "store" /\ ~ret.err /\ ~ret.created
  /\ ret.mem.id \in DOMAIN vec
  /\ vec[ret.mem.id] # Embed(ret.mem.content)
  /\ fts[memories[ret.mem.id].rowid].content = ret.mem.content

\* C23: the embedding cache and the vector index hold at most one entry per
\* memory id: a store whose embedding step succeeds leaves, for its id, one
\* cache row and one index entry with the new vector and model, and adds no
\* other entry.
C23_EmbeddingStep ==
  (IsCall /\ ret'.op = "store" /\ ~ret'.err /\ ~ret'.warn)
  => LET id == ret'.mem.id
     IN /\ DOMAIN embeddings' = DOMAIN embeddings \cup {id}
        /\ DOMAIN vec' = DOMAIN vec \cup {id}
        /\ bytesToFloat32(embeddings'[id].vector) = Embed(ret'.mem.content)
        /\ embeddings'[id].model = "text-embedding-3-small"
        /\ vec'[id] = Embed(ret'.mem.content)
        /\ \A x \in DOMAIN embeddings \ {id} : embeddings'[x] = embeddings[x]
        /\ \A x \in DOMAIN vec \ {id} : vec'[x] = vec[x]
C23_OneEmbeddingPerMemory == [][C23_EmbeddingStep]_vars

\* an evolving store embedded again the record that already had a vector
C23_Witness ==
  /\ ret.op = "store" /\ ~ret.err /\ ~ret.created /\ ~ret.warn
  /\ ret.mem.id \in DOMAIN embeddings
  /\ vec[ret.mem.id] = Embed(ret.mem.content)
  /\ calls = 2

\* C24: saveEmbedding(id, v, model) stores the little-endian bytes of v, 4 per
\* element, and a getEmbedding(id) that follows returns a vector of the same
\* length with the same 32 bits in every element.
C24_CodecStep ==
  /\ (ret'.op = "saveEmbedding" /\ ~ret'.err /\ ret' # ret)
     => LET bytes == embeddings'[ret'.id].vector
            v == ret'.v
        IN /\ Len(bytes) = 4 * Len(v)
           /\ \A i \in 1..Len(v) :
                /\ bytes[4 * i - 3] = v[i].lo % 256
                /\ bytes[4 * i - 2] = v[i].lo \div 256
                /\ bytes[4 * i - 1] = v[i].hi % 256
                /\ bytes[4 * i] = v[i].hi \div 256
  /\ (ret.op = "saveEmbedding" /\ ~ret.err /\ ret'.op = "getEmbedding" /\ ret'.id = ret.id)
     => /\ Len(ret'.got) = Len(ret.v)
        /\ \A i \in 1..Len(ret.v) :
             ret'.got[i].hi = ret.v[i].hi /\ ret'.got[i].lo = ret.v[i].lo
C24_EmbeddingRoundTrip == [][C24_CodecStep]_vars

\* a vector of two words, the sign bit set in one and four different bytes in
\* the other, was read back
C24_Witness ==
  /\ ret.op = "getEmbedding"
  /\ Len(ret.got) = 2
  /\ ret.got[1] = [hi |-> 32769, lo |-> 1]
  /\ ret.got[2] = [hi |-> 4660, lo |-> 22136]
\* str starts with prefix, character by character
HasPrefix(str, prefix) ==
  Len(prefix) <= Len(str) /\ SubSeq(str, 1, Len(prefix)) = prefix
\* the memories that satisfy every supplied filter of a list
Satisfying(opts) ==
  {i \in DOMAIN memories :
     /\ opts.types # {} => memories[i].type \in opts.types
     /\ opts.trustLevels # {} => memories[i].trust \in opts.trustLevels
     /\ opts.project # "" => memories[i].project = opts.project
     /\ opts.topicKey # "" => HasPrefix(Chars(memories[i].topicKey), Chars(opts.topicKey))}

\* C25: list returns exactly the memories that satisfy every supplied filter,
\* by updatedAt descending, cut to the first limit when limit > 0; a filter
\* nothing satisfies gives an empty result and no error; list changes no state.
C25_ListStep ==
  (IsCall /\ ret'.op = "list")
  => /\ UNCHANGED <<memories, relations, embeddings, vec, fts, deleted>>
     /\ ret'.fault = "none" => ~ret'.err
     /\ ~ret'.err =>
          LET res == ret'.results
              sat == Satisfying(ret'.opts)
              ids == {res[k].id : k \in 1..Len(res)}
              lim == ret'.opts.limit
          IN /\ ids \subseteq sat
             /\ Cardinality(ids) = Len(res)
             /\ \A k \in 1..Len(res) : res[k] = scanMemory(res[k].id, memories[res[k].id])
             /\ \A j, k \in 1..Len(res) : j < k => res[j].updatedAt >= res[k].updatedAt
             /\ \A i \in sat \ ids, k \in 1..Len(res) :
                  ParseRFC3339(memories[i].updatedAt) <= res[k].updatedAt
             /\ Len(res) = IF lim > 0 /\ lim < Cardinality(sat) THEN lim
                           ELSE Cardinality(sat)
C25_ListExact == [][C25_ListStep]_vars

\* C27: stats reports the numbers of memory rows, relation rows and
\* embedding-cache rows of the current state, and a counting read that fails is
\* reported as an error.
C27_StatsCountsOrError ==
  ret.op = "stats"
  => IF ret.fault = "none"
     THEN /\ ~ret.err
          /\ ret.stats.memories = Cardinality(DOMAIN memories)
          /\ ret.stats.relations = Cardinality(DOMAIN relations)
          /\ ret.stats.embeddings = Cardinality(DOMAIN embeddings)
     ELSE ret.err
\* C26: a construction returns either an engine holding an open store and no
\* error, or an error with no engine and the store closed, whichever statement
\* failed; never an engine together with an error.
C26_ConstructOrRelease ==
  \A c \in Callers :
    engine[c].op = "new"
    => /\ ~(engine[c].engine /\ engine[c].err)
       /\ engine[c].err => ~engine[c].engine /\ ~engine[c].open
       /\ ~engine[c].err => engine[c].engine /\ engine[c].open

\* one caller's construction opened the store, found no API key and released
\* the store, while the other caller holds an engine
C26_Witness ==
  \E c, d \in Callers :
    /\ engine[d].op = "new" /\ engine[d].engine /\ engine[d].open
    /\ engine[c].op = "new" /\ engine[c].err /\ engine[c].opened /\ ~engine[c].open
    /\ engine[c].fault = "none"
    /\ engine[c].cfg.EmbeddingProvider = "" /\ engine[c].cfg.OpenAIKey = ""
\* C28: when the stores of two callers under one non-empty topic key overlap
\* (both look the key up before either writes), the store holds at most one
\* record with that key once both have returned.
C28_ConcurrentStoresOneRecord ==
  (\A c \in Callers : inflight[c] = Idle)
  => \A i \in DOMAIN memories :
       memories[i].topicKey # "" => Holders(memories, memories[i].topicKey) = {i}
\* C29: a store whose topic-key lookup fails with a storage error fails and
\* writes nothing; it does not go on to create a record under a key that a
\* record already holds.
C29_LookupStep ==
  (IsCall /\ ret'.op = "store" /\ ret'.lookupFailed)
  => /\ ret'.err
     /\ UNCHANGED <<memories, embeddings, vec, fts>>
     /\ \A i \in DOMAIN memories' \ DOMAIN memories :
          memories'[i].topicKey = "" \/ Holders(memories, memories'[i].topicKey) = {}
C29_LookupFailureFailsStore == [][C29_LookupStep]_vars
\* C30: the types, tags, project and topic-key-prefix options of recall are
\* filters: every returned memory has a type in types, the project asked for, one
\* of the tags asked for and a topic key starting with the prefix, for each of
\* these options that is set.
C30_RecallFilters ==
  RecallReturned
  => \A k \in DOMAIN ret.results :
       LET m == memories[ret.results[k].id]
       IN /\ ret.opts.types # {} => m.type \in ret.opts.types
          /\ ret.opts.project # "" => m.project = ret.opts.project
          /\ ret.opts.tags # <<>> => SetOfSeq(m.tags.items) \cap SetOfSeq(ret.opts.tags) # {}
          /\ ret.opts.topicKey # ""
             => HasPrefix(Chars(m.topicKey), Chars(ret.opts.topicKey))
\* C31: a recall, successful or failed, leaves the set of memories, every field
\* of every memory other than accessCount, the relations, the embedding cache
\* and the membership of the keyword and vector indexes as they were.
C31_RecallStep ==
  (IsCall /\ ret'.op = "recall")
  => /\ DOMAIN memories' = DOMAIN memories
     /\ \A i \in DOMAIN memories :
          [memories'[i] EXCEPT !.accessCnt = memories[i].accessCnt] = memories[i]
     /\ relations' = relations
     /\ embeddings' = embeddings
     /\ DOMAIN vec' = DOMAIN vec
     /\ DOMAIN fts' = DOMAIN fts
C31_RecallFrame == [][C31_RecallStep]_vars

\* a recall over two memories, both indexed and embedded, returned both
\* and counted both
C31_Witness ==
  /\ RecallReturned
  /\ Len(ret.results) = 2
  /\ \A i \in DOMAIN memories : memories[i].accessCnt = 1
  /\ Cardinality(DOMAIN memories) = 2
  /\ DOMAIN fts # {}
  /\ DOMAIN embeddings # {}
\* C32: getRelations(id) returns exactly the edges that have id as an endpoint,
\* the outgoing ones before the incoming ones, and no edge twice, also when an
\* edge starts and ends at the same memory.
C32_RelationsExactlyOnce ==
  \A id \in MemIds :
    LET rs == GetRelations(id)
    IN /\ {rs[k].id : k \in DOMAIN rs}
            = {r \in DOMAIN relations : relations[r].fromId = id \/ relations[r].toId = id}
       /\ \A k \in DOMAIN rs :
            /\ rs[k].fromId = relations[rs[k].id].fromId
            /\ rs[k].toId = relations[rs[k].id].toId
       /\ \A j, k \in DOMAIN rs : (j < k /\ rs[k].fromId = id) => rs[j].fromId = id
       /\ \A j, k \in DOMAIN rs : j # k => rs[j].id # rs[k].id
\* C33: between calls the embedding cache and the vector index agree: a memory
\* id has a cache row exactly when it has an index entry, and the two hold the
\* same vector, after any store, saveEmbedding or delete, failed writes included.
C33_CacheAndIndexAgree ==
  /\ DOMAIN embeddings = DOMAIN vec
  /\ \A id \in DOMAIN embeddings \cap DOMAIN vec :
       bytesToFloat32(embeddings[id].vector) = vec[id]
\* C34: a saveEmbedding that runs to its end returns success with the index
\* holding the entry for its id, also when two calls for one id interleave
\* their statements; once both have returned, the index entry equals the cache
\* row.
C34_SaveReturnStep ==
  \A c \in Callers :
    (inflight[c] # Idle /\ inflight'[c] = Idle)
    => /\ ~ret'.err
       /\ ret'.id \in DOMAIN vec'
       /\ (\A d \in Callers : inflight'[d] = Idle)
          => vec'[ret'.id] = bytesToFloat32(embeddings'[ret'.id].vector)
C34_InterleavedSavesAgree == [][C34_SaveReturnStep]_vars
\* C35: a store through the store command or the cortex_store tool that
\* evolves a record by topic key without a trust (and, for the command, without
\* a type) leaves the record's trust and type as they were; a validated record
\* stays at a level a default recall asks for.
C35_BoundaryEvolveStep ==
  (IsCall /\ ret'.op = "store" /\ ~ret'.err /\ ~ret'.created)
  => LET id == ret'.mem.id
         noTrust == {toolStoreOptions(a) : a \in ToolStoreArgs}
                      \cup {runStoreOptions(f) : f \in {g \in RunStoreFlags : ~g.trust.given}}
         noType == {toolStoreOptions(a) : a \in {b \in ToolStoreArgs : ~b.type.given}}
                     \cup {runStoreOptions(f) : f \in {g \in RunStoreFlags : ~g.type.given}}
     IN /\ ret'.opts \in noTrust
           => /\ memories'[id].trust = memories[id].trust
              /\ memories[id].trust = TrustValidated
                 => memories'[id].trust \in {TrustValidated, TrustProven}
        /\ ret'.opts \in (noTrust \cap noType) => memories'[id].type = memories[id].type
C35_BoundaryEvolveKeepsTrust == [][C35_BoundaryEvolveStep]_vars
\* C36: a recall with a negative limit ends with an error or an empty result;
\* it never reaches the slice of the results with the negative bound, whatever
\* the vector search made of the negative candidate count.
C36_NegativeLimitNoFault ==
  (ret.op = "recall" /\ ret.opts.limit < 0)
  => /\ ~ret.panic
     /\ ret.err \/ ret.results = <<>>
\* C37: the server answers each line in turn: a request that parses gets
\* exactly one response with its id (a result, -32601 for an unknown method or
\* tool, -32602 for bad tool parameters), a line that does not parse gets one
\* -32700 error, a blank line and notifications/initialized get none, and the
\* loop goes on until the end of the input.
C37_ServeStep ==
  /\ server'.read = server.read + 1
     => LET line == server'.line
            n == Len(server.sent)
            new == SubSeq(server'.sent, n + 1, Len(server'.sent))
        IN /\ Len(server'.sent) >= n
           /\ SubSeq(server'.sent, 1, n) = server.sent
           /\ server'.state = "running"
           /\ IF line.kind = "blank" \/ line.method = "notifications/initialized"
              THEN new = <<>>
              ELSE IF line.kind = "garbage"
              THEN new = <<[id |-> NoId, kind |-> "error", code |-> -32700,
                            isError |-> FALSE]>>
              ELSE /\ Len(new) = 1
                   /\ new[1].id = line.id
                   /\ new[1].kind = "result" \/ new[1].code \in {-32601, -32602}
                   /\ line.method \notin {"initialize", "tools/list", "tools/call"}
                      => new[1].code = -32601
                   /\ line.params = "bad" => new[1].code = -32602
                   /\ line.params = "cortex_forget" => new[1].code = -32601
  /\ (server.state = "running" /\ server'.state # "running") => server'.line.kind = "eof"
C37_OneResponsePerRequest == [][C37_ServeStep]_vars
====
